---- MODULE Spec2Model ----
(***************************************************************************)
(* A model of the arithmetic-expression tokenizer (src/tokenizer.rs) and   *)
(* of the AST evaluator (src/ast.rs).                                      *)
(*                                                                         *)
(* Numbers.  An f64 is modelled by the rational it denotes, a pair         *)
(* <<n, d>> in lowest terms with d > 0.  The inputs are bounded so that    *)
(* every comparison with zero and every truncation the code performs gives *)
(* the same answer on the rational as on the rounded double; -0.0 and 0.0, *)
(* which Rust's == identifies, are one value.                              *)
(***************************************************************************)
EXTENDS Integers, Sequences, FiniteSets, TLC

VARIABLES
    expr,       \* Tokenizer.expr: the characters of the expression
    pos,        \* Tokenizer.expr: how many characters the iterator has consumed
    returned,   \* the results of the next() calls made so far, in order
    node,       \* the AST handed to eval
    outcome     \* what eval returned, or Pending before the call

vars == <<expr, pos, returned, node, outcome>>

\* ---------------------------------------------------------------- bounds

\* longest expression text
MaxLen == 3

\* next() calls made after the text could have been exhausted
ExtraCalls == 2

MaxCalls == MaxLen + 3 + ExtraCalls

\* ---------------------------------------------------------------- numbers

Abs(x) == IF x < 0 THEN -x ELSE x

RECURSIVE GCD(_, _)
GCD(a, b) == IF b = 0 THEN a ELSE GCD(b, a % b)

\* the f64 value n/d
Rat(n, d) ==
    LET s == IF d < 0 THEN -1 ELSE 1
        g == GCD(Abs(n), Abs(d))
    IN  <<(s * n) \div g, (s * d) \div g>>

FromInt(n) == <<n, 1>>

RECURSIVE Pow10(_)
Pow10(k) == IF k = 0 THEN 1 ELSE 10 * Pow10(k - 1)

\* ---------------------------------------------------------------- tokens

Digits == {"0", "1", "2", "3", "4", "5", "6", "7", "8", "9"}

DigitVal(c) ==
    CASE c = "0" -> 0 [] c = "1" -> 1 [] c = "2" -> 2 [] c = "3" -> 3
      [] c = "4" -> 4 [] c = "5" -> 5 [] c = "6" -> 6 [] c = "7" -> 7
      [] c = "8" -> 8 [] c = "9" -> 9

Symbols == {"+", "-", "*", "/", "^", "&", "|", "(", ")"}

Whitespace == {" ", "\t", "\n"}

\* Token::Num(value)
Num(v) == [type |-> "Num", value |-> v]

\* a token that carries no value
Tok(t) == [type |-> t, value |-> <<0, 1>>]

EOF == Tok("EOF")

\* Option::None
None == Tok("None")

\* SymbolToken with the '-' arm returning the token of the '+' arm
SymbolTokenSlip(c) ==
    CASE c = "+" -> Tok("Add")
      [] c = "-" -> Tok("Add")
      [] c = "*" -> Tok("Multiply")
      [] c = "/" -> Tok("Divide")
      [] c = "^" -> Tok("Caret")
      [] c = "&" -> Tok("And")
      [] c = "|" -> Tok("Or")
      [] c = "(" -> Tok("LeftParen")
      [] c = ")" -> Tok("RightParen")

\* the arms '+' .. ')' of the match in next()
SymbolToken(c) ==
    CASE c = "+" -> Tok("Add")
      [] c = "-" -> Tok("Subtract")
      [] c = "*" -> Tok("Multiply")
      [] c = "/" -> Tok("Divide")
      [] c = "^" -> Tok("Caret")
      [] c = "&" -> Tok("And")
      [] c = "|" -> Tok("Or")
      [] c = "(" -> Tok("LeftParen")
      [] c = ")" -> Tok("RightParen")

\* ---------------------------------------------------------------- tokenizer

\* the while loop of parse_number: the position after the run of digits and
\* '.' that starts after position p
RECURSIVE ScanRun(_, _)
ScanRun(s, p) ==
    IF p < Len(s) /\ (s[p + 1] \in Digits \/ s[p + 1] = ".")
    THEN ScanRun(s, p + 1)
    ELSE p

\* the position after the digits of t that start after position i
RECURSIVE SkipDigits(_, _)
SkipDigits(t, i) ==
    IF i < Len(t) /\ t[i + 1] \in Digits THEN SkipDigits(t, i + 1) ELSE i

\* the decimal number written by the digits t[a+1 .. b]
RECURSIVE DigitsValue(_, _, _)
DigitsValue(t, a, b) ==
    IF b <= a THEN 0 ELSE 10 * DigitsValue(t, a, b - 1) + DigitVal(t[b])

\* ParseF64 reading the longest numeric prefix and ignoring what follows it
ParseF64Lenient(t) ==
    LET i == SkipDigits(t, 0)
        dot == i < Len(t) /\ t[i + 1] = "."
        j == IF dot THEN SkipDigits(t, i + 1) ELSE i
        fracLen == IF dot THEN j - (i + 1) ELSE 0
    IN  IF i + fracLen > 0
        THEN [ok |-> TRUE,
              value |-> Rat(DigitsValue(t, 0, i) * Pow10(fracLen)
                            + DigitsValue(t, i + 1, j), Pow10(fracLen))]
        ELSE [ok |-> FALSE, value |-> <<0, 1>>]

\* str::parse::<f64> on a text of digits and '.': digits, then optionally a
\* '.' and more digits, with a digit on at least one side of the '.'
ParseF64(t) ==
    LET i == SkipDigits(t, 0)
        dot == i < Len(t) /\ t[i + 1] = "."
        j == IF dot THEN SkipDigits(t, i + 1) ELSE i
        fracLen == IF dot THEN j - (i + 1) ELSE 0
    IN  IF j = Len(t) /\ i + fracLen > 0
        THEN [ok |-> TRUE,
              value |-> Rat(DigitsValue(t, 0, i) * Pow10(fracLen)
                            + DigitsValue(t, i + 1, j), Pow10(fracLen))]
        ELSE [ok |-> FALSE, value |-> <<0, 1>>]

\* Tokenizer::parse_number, called with the first digit (at position p) consumed
parse_number(s, p) ==
    LET q == ScanRun(s, p)
        r == ParseF64(SubSeq(s, p, q))
    IN  [res |-> IF r.ok THEN Num(r.value) ELSE None, pos |-> q]

\* next with the arm of an unknown character skipping it as whitespace is
RECURSIVE nextSkipsUnknown(_, _)
nextSkipsUnknown(s, p) ==
    IF p >= Len(s) THEN [res |-> EOF, pos |-> p]
    ELSE LET c == s[p + 1]
         IN  CASE c \in Digits -> parse_number(s, p + 1)
               [] c \in Symbols -> [res |-> SymbolToken(c), pos |-> p + 1]
               [] OTHER -> nextSkipsUnknown(s, p + 1)

\* next stepping the cursor past the end when it returns EOF, and returning
\* None from there
RECURSIVE nextPastEnd(_, _)
nextPastEnd(s, p) ==
    IF p > Len(s) THEN [res |-> None, pos |-> p]
    ELSE IF p = Len(s) THEN [res |-> EOF, pos |-> p + 1]
    ELSE LET c == s[p + 1]
         IN  CASE c \in Digits -> parse_number(s, p + 1)
               [] c \in Symbols -> [res |-> SymbolToken(c), pos |-> p + 1]
               [] c \in Whitespace -> nextPastEnd(s, p + 1)
               [] OTHER -> [res |-> None, pos |-> p + 1]

\* next with the arm of an unknown character not consuming it
RECURSIVE nextStuck(_, _)
nextStuck(s, p) ==
    IF p >= Len(s) THEN [res |-> EOF, pos |-> p]
    ELSE LET c == s[p + 1]
         IN  CASE c \in Digits -> parse_number(s, p + 1)
               [] c \in Symbols -> [res |-> SymbolToken(c), pos |-> p + 1]
               [] c \in Whitespace -> nextStuck(s, p + 1)
               [] OTHER -> [res |-> None, pos |-> p]

\* Tokenizer::next with the cursor after position p: the Option<Token> it
\* returns and the cursor it leaves
RECURSIVE next(_, _)
next(s, p) ==
    IF p >= Len(s) THEN [res |-> EOF, pos |-> p]
    ELSE LET c == s[p + 1]
         IN  CASE c \in Digits -> parse_number(s, p + 1)
               [] c \in Symbols -> [res |-> SymbolToken(c), pos |-> p + 1]
               [] c \in Whitespace -> next(s, p + 1)
               [] OTHER -> [res |-> None, pos |-> p + 1]

\* ---------------------------------------------------------------- f64 arithmetic

\* largest numerator or denominator of a value the model computes with
Limit == 10000

InRange(x) == Abs(x[1]) <= Limit /\ x[2] <= Limit

IsInteger(x) == x[2] = 1

fneg(x) == <<-x[1], x[2]>>

fadd(x, y) == Rat(x[1] * y[2] + y[1] * x[2], x[2] * y[2])

fsub(x, y) == Rat(x[1] * y[2] - y[1] * x[2], x[2] * y[2])

fmul(x, y) == Rat(x[1] * y[1], x[2] * y[2])

\* x / y for y /= 0
fdiv(x, y) == Rat(x[1] * y[2], x[2] * y[1])

\* b^k for a natural k, by repeated multiplication; stops growing once the
\* magnitude has passed Limit
RECURSIVE IntPow(_, _, _)
IntPow(b, k, acc) ==
    IF k = 0 \/ Abs(acc) > Limit \/ acc = 0 THEN acc
    ELSE IF b = 1 THEN acc
    ELSE IF b = -1 THEN (IF k % 2 = 0 THEN acc ELSE -acc)
    ELSE IntPow(b, k - 1, acc * b)

\* f64::powf for an integer exponent y, and a base x /= 0 when y < 0
powf(x, y) ==
    LET k == Abs(y[1])
        n == IntPow(x[1], k, 1)
        d == IntPow(x[2], k, 1)
    IN  IF y[1] >= 0 THEN Rat(n, d) ELSE Rat(d, n)

\* as_i64 rounding down instead of toward zero
as_i64Floor(x) == x[1] \div x[2]

\* `as i64` on an f64: the fractional part is dropped (rounding toward zero)
as_i64(x) ==
    IF x[1] >= 0 THEN x[1] \div x[2] ELSE -((-x[1]) \div x[2])

\* `as f64` on an i64
as_f64(i) == FromInt(i)

\* & on i64, two's complement
RECURSIVE BitAnd(_, _)
BitAnd(a, b) ==
    IF a = 0 \/ b = 0 THEN 0
    ELSE IF a = -1 THEN b
    ELSE IF b = -1 THEN a
    ELSE (a % 2) * (b % 2) + 2 * BitAnd(a \div 2, b \div 2)

\* | on i64, two's complement
RECURSIVE BitOr(_, _)
BitOr(a, b) ==
    IF a = 0 THEN b
    ELSE IF b = 0 THEN a
    ELSE IF a = -1 \/ b = -1 THEN -1
    ELSE (IF a % 2 = 1 \/ b % 2 = 1 THEN 1 ELSE 0) + 2 * BitOr(a \div 2, b \div 2)

\* ---------------------------------------------------------------- evaluator

\* Node::Number(v)
Number(v) == [op |-> "Number", value |-> v]

\* Node::Negative(e)
Negative(e) == [op |-> "Negative", a |-> e]

\* a binary node: op(expr1, expr2)
Binary(o, e1, e2) == [op |-> o, a |-> e1, b |-> e2]

BinaryOps == {"And", "Or", "Add", "Subtract", "Multiply", "Divide", "Caret"}

\* Ok(v), with the eval calls made to compute it, in order (each call is named
\* by the path from the root to the node it was given)
Ok(v, t) == [ok |-> TRUE, value |-> v, err |-> "", trace |-> t]

\* Err(e)
Err(e, t) == [ok |-> FALSE, value |-> <<0, 1>>, err |-> e, trace |-> t]

\* Combine with the operands of the subtraction exchanged
CombineSwapped(o, x, y) ==
    CASE o = "Add" -> fadd(x, y)
      [] o = "Subtract" -> fsub(y, x)
      [] o = "Multiply" -> fmul(x, y)
      [] o = "Caret" -> powf(x, y)
      [] o = "And" -> as_f64(BitAnd(as_i64(x), as_i64(y)))
      [] o = "Or" -> as_f64(BitOr(as_i64(x), as_i64(y)))

\* the operation an arm of eval applies to the values of its operands
Combine(o, x, y) ==
    CASE o = "Add" -> fadd(x, y)
      [] o = "Subtract" -> fsub(x, y)
      [] o = "Multiply" -> fmul(x, y)
      [] o = "Caret" -> powf(x, y)
      [] o = "And" -> as_f64(BitAnd(as_i64(x), as_i64(y)))
      [] o = "Or" -> as_f64(BitOr(as_i64(x), as_i64(y)))

\* OperandsInOrder making the call on expr2 before the call on expr1
OperandsRightFirst(o, path, l, r) ==
    IF ~r.ok THEN Err(r.err, <<path>> \o r.trace)
    ELSE IF ~l.ok THEN Err(l.err, <<path>> \o r.trace \o l.trace)
    ELSE Ok(Combine(o, l.value, r.value), <<path>> \o r.trace \o l.trace)

\* an arm `eval(*expr1)? op eval(*expr2)?`: l and r are what the two calls
\* return; the second call is made only when the first returned Ok
OperandsInOrder(o, path, l, r) ==
    IF ~l.ok THEN Err(l.err, <<path>> \o l.trace)
    ELSE IF ~r.ok THEN Err(r.err, <<path>> \o l.trace \o r.trace)
    ELSE Ok(Combine(o, l.value, r.value), <<path>> \o l.trace \o r.trace)

\* divisor_is_zero testing the divisor after a conversion to an integer
divisor_is_zeroAsInteger(d) == as_i64(d) = 0

\* the test `divisor == 0.0`
divisor_is_zero(d) == d[1] = 0

\* the Divide arm: l and r are what eval returns on expr1 and expr2; expr2 is
\* evaluated first, expr1 only when the divisor is not zero
DivideArm(path, l, r) ==
    IF ~r.ok THEN Err(r.err, <<path>> \o r.trace)
    ELSE IF divisor_is_zero(r.value)
         THEN Err("Division by zero", <<path>> \o r.trace)
    ELSE IF ~l.ok THEN Err(l.err, <<path>> \o r.trace \o l.trace)
    ELSE Ok(fdiv(l.value, r.value), <<path>> \o r.trace \o l.trace)

\* the Negative arm: e is what eval returns on the operand
NegativeArm(path, e) ==
    IF ~e.ok THEN Err(e.err, <<path>> \o e.trace)
    ELSE Ok(fneg(e.value), <<path>> \o e.trace)

\* eval on the node n, which lies at `path` below the root
RECURSIVE eval(_, _)
eval(n, path) ==
    CASE n.op = "Number" -> Ok(n.value, <<path>>)
      [] n.op = "Negative" -> NegativeArm(path, eval(n.a, Append(path, 1)))
      [] n.op = "Divide" ->
            DivideArm(path, eval(n.a, Append(path, 1)), eval(n.b, Append(path, 2)))
      [] OTHER ->
            OperandsInOrder(n.op, path, eval(n.a, Append(path, 1)),
                            eval(n.b, Append(path, 2)))

\* ---------------------------------------------------------------- inputs

\* the characters the expression texts are drawn from
Alphabet == {"0", "5", "."} \cup Symbols \cup Whitespace \cup {"x"}

\* the characters of the longer texts
CoreAlphabet == {"5", ".", "+", " ", "x"}

LongLen == MaxLen + 2

Texts ==
    UNION {[1..n -> Alphabet] : n \in 0..MaxLen}
      \cup UNION {[1..n -> CoreAlphabet] : n \in (MaxLen + 1)..LongLen}

\* the numbers at the leaves of the ASTs
LeafValues == {FromInt(-7), FromInt(0), FromInt(3), FromInt(6)}

Leaves == {Number(v) : v \in LeafValues}

\* the nodes built from the operands in S
Over(S) ==
    {Negative(e) : e \in S}
      \cup {Binary(o, e1, e2) : o \in BinaryOps, e1 \in S, e2 \in S}

Trees1 == Leaves \cup Over(Leaves)

Trees == Trees1 \cup Over(Trees1)

\* every value eval computes on n is one the model represents: a Caret has an
\* integer exponent and no zero base under a negative exponent, and no
\* numerator or denominator passes Limit
RECURSIVE Representable(_)
Representable(n) ==
    IF n.op = "Number" THEN InRange(n.value)
    ELSE IF n.op = "Negative" THEN Representable(n.a)
    ELSE /\ Representable(n.a)
         /\ Representable(n.b)
         /\ LET l == eval(n.a, <<>>)
                r == eval(n.b, <<>>)
            IN  (l.ok /\ r.ok /\ ~(n.op = "Divide" /\ r.value[1] = 0)) =>
                    /\ n.op = "Caret" =>
                          /\ IsInteger(r.value)
                          /\ r.value[1] < 0 => l.value[1] /= 0
                    /\ InRange(eval(n, <<>>).value)

Pending == [ok |-> FALSE, value |-> <<0, 1>>, err |-> "pending", trace |-> <<>>]

\* ---------------------------------------------------------------- behaviour

\* Tokenizer::new
Init ==
    /\ expr \in Texts
    /\ pos = 0
    /\ returned = <<>>
    /\ node = Number(FromInt(0))
    /\ outcome = Pending

\* CallNext of a fused iterator: after a None, None again
CallNextFused ==
    /\ Len(returned) < MaxCalls
    /\ LET r == IF \E i \in DOMAIN returned : returned[i] = None
                THEN [res |-> None, pos |-> pos]
                ELSE next(expr, pos)
       IN  /\ pos' = r.pos
           /\ returned' = Append(returned, r.res)
    /\ UNCHANGED <<expr, node, outcome>>

\* one call of Tokenizer::next
CallNext ==
    /\ Len(returned) < MaxCalls
    /\ LET r == next(expr, pos)
       IN  /\ pos' = r.pos
           /\ returned' = Append(returned, r.res)
    /\ UNCHANGED <<expr, node, outcome>>

Next == CallNext

Spec == Init /\ [][Next]_vars

\* an AST, as the parser or any other caller hands it to eval
InitEval ==
    /\ node \in {n \in Trees : Representable(n)}
    /\ outcome = Pending
    /\ expr = <<>>
    /\ pos = 0
    /\ returned = <<>>

\* the call eval(node)
Evaluate ==
    /\ outcome = Pending
    /\ outcome' = eval(node, <<>>)
    /\ UNCHANGED <<expr, pos, returned, node>>

NextEval == Evaluate

SpecEval == InitEval /\ [][NextEval]_vars

\* ---------------------------------------------------------------- tokenizer properties

Last(q) == q[Len(q)]

Called == Len(returned) > 0

\* the characters of s that are not whitespace, in order
NonWhitespace(s) == SelectSeq(s, LAMBDA c : c \notin Whitespace)

\* a text of single digits, symbols and whitespace: no digit follows a digit
SingleDigitText(s) ==
    /\ \A i \in DOMAIN s : s[i] \in Digits \cup Symbols \cup Whitespace
    /\ \A i \in DOMAIN s : i < Len(s) /\ s[i] \in Digits => s[i + 1] \notin Digits

SymbolTable ==
    {<<"+", "Add">>, <<"-", "Subtract">>, <<"*", "Multiply">>, <<"/", "Divide">>,
     <<"^", "Caret">>, <<"&", "And">>, <<"|", "Or">>, <<"(", "LeftParen">>,
     <<")", "RightParen">>}

\* the token a single non-whitespace character stands for
TokenOf(c) ==
    IF c \in Digits THEN Num(FromInt(DigitVal(c)))
    ELSE Tok((CHOOSE e \in SymbolTable : e[1] = c)[2])

\* the index of the first character after position p that is not whitespace,
\* or 0 when there is none
FirstAfter(s, p) ==
    IF \E i \in (p + 1)..Len(s) : s[i] \notin Whitespace
    THEN CHOOSE i \in (p + 1)..Len(s) :
            /\ s[i] \notin Whitespace
            /\ \A k \in (p + 1)..(i - 1) : s[k] \in Whitespace
    ELSE 0

Unrecognized(c) == c \notin Digits \cup Symbols \cup Whitespace

NumberChar(c) == c \in Digits \/ c = "."

\* the last index of the maximal run of digits and '.' that starts at index i
RunEnd(s, i) ==
    CHOOSE q \in i..Len(s) :
        /\ \A k \in i..q : NumberChar(s[k])
        /\ q = Len(s) \/ ~NumberChar(s[q + 1])

DecimalPoints(s, i, q) == Cardinality({k \in i..q : s[k] = "."})

\* C1: on a text of single digits, the nine symbols and whitespace, the
\* calls of next() return one token per non-whitespace character, in order
\* (digit d as Num(d), every symbol as its own token), and EOF after them
C1_OneTokenPerCharacter ==
    SingleDigitText(expr) =>
        \A i \in DOMAIN returned :
            returned[i] = IF i <= Len(NonWhitespace(expr))
                          THEN TokenOf(NonWhitespace(expr)[i])
                          ELSE EOF

C1_Witness ==
    /\ expr = <<" ", "-", "5">>
    /\ returned = <<Tok("Subtract"), Num(<<5, 1>>), EOF>>

\* C2: when the first non-whitespace character at the cursor is not a digit,
\* a symbol or whitespace, the call returns None and leaves the cursor just
\* after that character: nothing that follows it is returned
C2_UnrecognizedFails ==
    [][LET i == FirstAfter(expr, pos)
       IN  (i > 0 /\ Unrecognized(expr[i])) =>
               (Last(returned') = None /\ pos' = i)]_vars

C2_Witness ==
    /\ expr = <<" ", "x", "+">>
    /\ returned = <<None>>
    /\ pos = 2

\* C3: a call that finds a digit consumes the maximal run of digits and '.'
\* that starts there; it returns None when the run holds more than one '.',
\* and a Num token otherwise
C3_NumericLiteral ==
    [][LET i == FirstAfter(expr, pos)
       IN  (i > 0 /\ expr[i] \in Digits) =>
               LET q == RunEnd(expr, i)
               IN  /\ pos' = q
                   /\ IF DecimalPoints(expr, i, q) > 1
                      THEN Last(returned') = None
                      ELSE Last(returned').type = "Num"]_vars

C3_Witness ==
    /\ expr = <<"5", ".", ".", "+">>
    /\ returned = <<None>>
    /\ pos = 3

\* C4: once a call has returned EOF, every later call returns EOF and the
\* cursor does not move
C4_EofIdempotent ==
    [][(Called /\ Last(returned) = EOF) =>
           (Last(returned') = EOF /\ pos' = pos)]_vars

C4_Witness ==
    /\ Len(expr) > 0
    /\ Len(returned) >= 3
    /\ returned[Len(returned) - 2] = EOF
    /\ returned[Len(returned) - 1] = EOF
    /\ Last(returned) = EOF

\* C5: the cursor never moves backwards, a call that does not return EOF
\* moves it forward, and from the call numbered length + 1 on every call
\* returns EOF, failed calls or not
C5_Finite ==
    /\ [](/\ pos <= Len(expr)
          /\ \A i \in DOMAIN returned : i >= Len(expr) + 1 => returned[i] = EOF)
    /\ [][/\ pos' >= pos
          /\ Last(returned') /= EOF => pos' > pos]_vars

C5_Witness ==
    /\ expr = <<"x", "5", ".", ".">>
    /\ returned = <<None, None, EOF>>

\* C10 as stated: after a failed call no later call returns a token
C10_NoTokenAfterFailure ==
    \A i \in DOMAIN returned : \A j \in DOMAIN returned :
        (i < j /\ returned[i] = None) => returned[j] \in {None, EOF}

\* C10, amended: a failed call returns None and leaves the cursor after the
\* text it consumed; the next call resumes there, returning the token of a
\* symbol that follows, or EOF when nothing follows
C10_ResumesAfterFailure ==
    [][(Called /\ Last(returned) = None) =>
           /\ (pos < Len(expr) /\ expr[pos + 1] \in Symbols) =>
                  (Last(returned') = TokenOf(expr[pos + 1]) /\ pos' = pos + 1)
           /\ pos = Len(expr) => Last(returned') = EOF]_vars

C10_Witness ==
    /\ expr = <<"5", ".", ".", "+">>
    /\ returned = <<None, Tok("Add")>>

\* ---------------------------------------------------------------- evaluator properties

Evaluated == outcome.err /= "pending"

\* what eval returns on the operands of the root
LeftResult == eval(node.a, <<1>>)

RightResult == eval(node.b, <<2>>)

\* the positions in the trace t of the calls made below operand k of the root
Visits(t, k) == {i \in DOMAIN t : Len(t[i]) > 0 /\ t[i][1] = k}

Before(t, j, k) == \A i1 \in Visits(t, j) : \A i2 \in Visits(t, k) : i1 < i2

\* C6: a Divide whose divisor evaluates to zero fails with "Division by
\* zero", whatever the dividend; with a non-zero divisor and a dividend that
\* evaluates, the result is the quotient
C6_DivisionByZero ==
    (Evaluated /\ node.op = "Divide" /\ RightResult.ok) =>
        IF RightResult.value[1] = 0
        THEN ~outcome.ok /\ outcome.err = "Division by zero"
        ELSE LeftResult.ok =>
                /\ outcome.ok
                /\ fmul(outcome.value, RightResult.value) = LeftResult.value

C6_Witness ==
    /\ Evaluated
    /\ node = Binary("Divide", Binary("Divide", Number(<<6, 1>>), Number(<<0, 1>>)),
                     Binary("Subtract", Number(<<3, 1>>), Number(<<3, 1>>)))
    /\ outcome.err = "Division by zero"

\* C7 as stated: every binary node evaluates its left operand before its
\* right operand, and returns the left operand's failure without evaluating
\* the right operand
C7_LeftBeforeRight ==
    (Evaluated /\ node.op \in BinaryOps) =>
        /\ Before(outcome.trace, 1, 2)
        /\ ~LeftResult.ok =>
              /\ Visits(outcome.trace, 2) = {}
              /\ ~outcome.ok /\ outcome.err = LeftResult.err

\* C7, amended: that holds of every binary node but Divide; Divide evaluates
\* its right operand, the divisor, first, and when the divisor fails or is
\* zero it returns the failure without evaluating the left operand
C7_LeftBeforeRightButDivide ==
    (Evaluated /\ node.op \in BinaryOps) =>
        IF node.op /= "Divide"
        THEN /\ Before(outcome.trace, 1, 2)
             /\ Visits(outcome.trace, 1) /= {}
             /\ ~LeftResult.ok =>
                   /\ Visits(outcome.trace, 2) = {}
                   /\ ~outcome.ok /\ outcome.err = LeftResult.err
        ELSE /\ Before(outcome.trace, 2, 1)
             /\ Visits(outcome.trace, 2) /= {}
             /\ (~RightResult.ok \/ RightResult.value[1] = 0) =>
                   /\ Visits(outcome.trace, 1) = {}
                   /\ ~outcome.ok

C7_Witness ==
    /\ Evaluated
    /\ node = Binary("Add", Binary("Divide", Number(<<6, 1>>), Number(<<0, 1>>)),
                     Binary("Multiply", Number(<<3, 1>>), Number(<<6, 1>>)))
    /\ outcome.trace = <<<<>>, <<1>>, <<1, 2>>>>

\* x with its fractional part dropped
Truncated(x) ==
    CHOOSE t \in {(x[1] \div x[2]) - 1, x[1] \div x[2], (x[1] \div x[2]) + 1} :
        /\ Abs(t) * x[2] <= Abs(x[1])
        /\ Abs(x[1]) < (Abs(t) + 1) * x[2]
        /\ t * x[1] >= 0

RECURSIVE Pow2(_)
Pow2(i) == IF i = 0 THEN 1 ELSE 2 * Pow2(i - 1)

\* bit i of the two's complement form of v
Bit(v, i) == (v \div Pow2(i)) % 2

\* the bits that can differ from the sign bit in a value within Limit
LowBits == {i \in 0..30 : i = 0 \/ Pow2(i - 1) <= Limit}

\* C8: And and Or return the integer whose bits are the AND / OR of the bits
\* of the operand values with their fractional parts dropped
C8_BitwiseTruncates ==
    (Evaluated /\ node.op \in {"And", "Or"} /\ LeftResult.ok /\ RightResult.ok) =>
        /\ outcome.ok
        /\ IsInteger(outcome.value)
        /\ \A i \in LowBits :
              LET x == Bit(Truncated(LeftResult.value), i)
                  y == Bit(Truncated(RightResult.value), i)
                  z == Bit(outcome.value[1], i)
              IN  IF node.op = "And" THEN z = x * y ELSE z = x + y - x * y

C8_Witness ==
    /\ Evaluated
    /\ node = Binary("And", Binary("Divide", Number(<<-7, 1>>), Number(<<3, 1>>)),
                     Number(<<3, 1>>))
    /\ outcome.value = <<2, 1>>

\* the value of n by structural recursion, or undefined when a Divide in n
\* has a divisor of value zero
RECURSIVE Denote(_)
Denote(n) ==
    IF n.op = "Number" THEN [def |-> TRUE, v |-> n.value]
    ELSE IF n.op = "Negative"
    THEN LET x == Denote(n.a)
         IN  [def |-> x.def, v |-> IF x.def THEN fneg(x.v) ELSE <<0, 1>>]
    ELSE LET x == Denote(n.a)
             y == Denote(n.b)
             d == x.def /\ y.def /\ ~(n.op = "Divide" /\ y.v[1] = 0)
         IN  [def |-> d,
              v |-> IF ~d THEN <<0, 1>>
                    ELSE CASE n.op = "Add" -> fadd(x.v, y.v)
                           [] n.op = "Subtract" -> fsub(x.v, y.v)
                           [] n.op = "Multiply" -> fmul(x.v, y.v)
                           [] n.op = "Divide" -> fdiv(x.v, y.v)
                           [] n.op = "Caret" -> powf(x.v, y.v)
                           [] n.op = "And" ->
                                FromInt(BitAnd(Truncated(x.v), Truncated(y.v)))
                           [] n.op = "Or" ->
                                FromInt(BitOr(Truncated(x.v), Truncated(y.v)))]

\* C9: on an AST with integer leaves and no Divide whose divisor has the
\* value zero, eval returns the value of the AST by structural recursion;
\* eval fails only on an AST that has such a Divide
C9_StructuralRecursion ==
    Evaluated =>
        IF Denote(node).def
        THEN outcome.ok /\ outcome.value = Denote(node).v
        ELSE ~outcome.ok /\ outcome.err = "Division by zero"

C9_Witness ==
    /\ Evaluated
    /\ node = Binary("Add", Number(<<3, 1>>),
                     Binary("Caret", Number(<<3, 1>>), Number(<<3, 1>>)))
    /\ outcome.value = <<30, 1>>

====
